---------------------------- MODULE Spec2Model ----------------------------
(***************************************************************************)
(* Model of .github/scripts/generate_missing_hw_diffs.py: the directory    *)
(* scanners, the comparison-path key mapper, the reconciler and the        *)
(* backfill dispatcher.                                                    *)
(*                                                                         *)
(* A path string is a sequence of tokens.  The separators "/" and ":" are  *)
(* tokens of their own; every other token stands for a non-empty run of    *)
(* characters holding neither separator.  str.split, os.path.join and      *)
(* os.path.basename are modelled on these sequences by what they do.       *)
(***************************************************************************)
EXTENDS Naturals, Sequences, FiniteSets

VARIABLES
    pc,                     \* position of the modelled call
    (* the file system and find_result_dirs_without_hw_diffs *)
    dirs,                   \* directories that exist (path strings)
    files,                  \* regular files that exist (path strings)
    stack,                  \* os.walk: directories still to be visited
    ret,                    \* the scanner's local `ret`
    visited,                \* every directory os.walk has yielded so far
    result_paths,
    hw_comparison_paths,
    source_paths,
    missing,                \* value returned by find_result_dirs_without_hw_diffs
    (* _comparison_path_to_source_path on its own *)
    comparison_path,
    source_path,
    (* generate_missing_hw_diffs *)
    results_missing_comparisons,
    max_workers,
    executor,               \* "none", "running" or "shutdown"
    futures,                \* per result: "none", "pending", "running", "finished"
    future_result,          \* per finished future: the success flag it holds
    returncode,             \* per finished parallel run: its exit status
    worker,                 \* per busy pool process: the result it is running
    tallied,                \* futures the as_completed loop has consumed
    successful_comparisons,
    failed_comparisons,
    parallel_runs,          \* per result: comparator runs started by the pool
    serial_runs,            \* per result: comparator runs started by the serial loop
    retval                  \* value returned by generate_missing_hw_diffs

scanVars == <<dirs, files, stack, ret, visited, result_paths,
              hw_comparison_paths, source_paths, missing>>
keyVars == <<comparison_path, source_path>>
dispatchVars == <<results_missing_comparisons, max_workers, executor, futures,
                  future_result, returncode, worker, tallied, successful_comparisons,
                  failed_comparisons, parallel_runs, serial_runs, retval>>
vars == <<pc, scanVars, keyVars, dispatchVars>>

-----------------------------------------------------------------------------
(* Strings *)

SEP == "/"
COLON == ":"
RESULTS_JSON == "results.json"
SUMMARY_JSON == "summary.json"
HW_BASENAME == "Xbox__Xbox__DirectX__nv2a"

\* s.find(tok) + 1: the first position of tok in s, 0 when absent
Find(s, tok) ==
    IF \E i \in 1..Len(s) : s[i] = tok
    THEN CHOOSE i \in 1..Len(s) : s[i] = tok /\ \A j \in 1..(i - 1) : s[j] # tok
    ELSE 0

\* s.rfind(tok) + 1: the last position of tok in s, 0 when absent
RFind(s, tok) ==
    IF \E i \in 1..Len(s) : s[i] = tok
    THEN CHOOSE i \in 1..Len(s) : s[i] = tok /\ \A j \in (i + 1)..Len(s) : s[j] # tok
    ELSE 0

\* s.split(tok): never empty; "" splits to [""]
RECURSIVE str_split(_, _)
str_split(s, tok) ==
    LET i == Find(s, tok)
    IN  IF i = 0 THEN <<s>>
        ELSE <<SubSeq(s, 1, i - 1)>> \o str_split(SubSeq(s, i + 1, Len(s)), tok)

\* one round of posixpath.join's loop: path joined with the component b
JoinOne(path, b) ==
    IF Len(b) > 0 /\ b[1] = SEP THEN b
    ELSE IF path = <<>> \/ path[Len(path)] = SEP THEN path \o b
    ELSE path \o <<SEP>> \o b

\* os.path.join(a, *p)
RECURSIVE os_path_join(_, _)
os_path_join(a, p) ==
    IF p = <<>> THEN a ELSE os_path_join(JoinOne(a, Head(p)), Tail(p))

\* os.path.basename(p)
os_path_basename(p) == SubSeq(p, RFind(p, SEP) + 1, Len(p))

-----------------------------------------------------------------------------
(* _comparison_path_to_source_path *)

Returned(v) == [raised |-> FALSE, value |-> v]
IndexError == [raised |-> TRUE, value |-> <<>>]

\* graphics_pair.split(":")
SplitGraphicsPair(graphics_pair) == str_split(graphics_pair, COLON)

\* a key mapper that joins by the suite directory, components[-1], in place
\* of the graphics pair
SourcePathBySuite(path) ==
    LET components == str_split(path, SEP)
        n == Len(components)
    IN  IF n < 4 THEN IndexError
        ELSE Returned(os_path_join(components[n - 3], <<components[n - 2], components[n]>>))

\* components[-4], components[-3], components[-2] raise IndexError on a list
\* shorter than four
_comparison_path_to_source_path(path) ==
    LET components == str_split(path, SEP)
        n == Len(components)
    IN  IF n < 4 THEN IndexError
        ELSE LET xemu == components[n - 3]
                 platform == components[n - 2]
                 graphics_pair == components[n - 1]
             IN  Returned(os_path_join(xemu, <<platform>> \o SplitGraphicsPair(graphics_pair)))

-----------------------------------------------------------------------------
(* The file system and os.walk *)

\* e is an entry of the directory top
IsEntryOf(e, top) ==
    /\ Len(e) > Len(top) + 1
    /\ SubSeq(e, 1, Len(top)) = top
    /\ e[Len(top) + 1] = SEP
    /\ \A i \in (Len(top) + 2)..Len(e) : e[i] # SEP

EntryName(e, top) == SubSeq(e, Len(top) + 2, Len(e))

\* os.scandir(top), split by os.walk into dirnames and filenames
Dirnames(top) == {EntryName(e, top) : e \in {d \in dirs : IsEntryOf(d, top)}}
Filenames(top) == {EntryName(e, top) : e \in {f \in files : IsEntryOf(f, top)}}

\* a listing order of a set of names (scandir's order is unspecified)
RECURSIVE Listed(_)
Listed(S) ==
    IF S = {} THEN <<>>
    ELSE LET n == CHOOSE m \in S : TRUE IN <<n>> \o Listed(S \ {n})

\* the conditions under which the loop body of _find_results_paths reaches
\* ret.add(root)
IsResultsUnit(root, dirnames, filenames) ==
    /\ dirnames # {}
    /\ <<RESULTS_JSON>> \in filenames

\* the same for _find_hw_comparison_paths
IsHwComparisonUnit(root, dirnames, filenames) ==
    /\ dirnames # {}
    /\ <<SUMMARY_JSON>> \in filenames
    /\ os_path_basename(root) = <<HW_BASENAME>>

\* dirnames.clear(): what os.walk is left to descend into below a unit
NotCleared(dirnames) == dirnames
Cleared(dirnames) == {}

\* the directory os.walk pops next
Top == stack[Len(stack)]

\* One iteration of `for root, dirnames, filenames in os.walk(...)`, the loop
\* body included; unit says whether the body reaches ret.add(root).  A
\* directory that cannot be listed is skipped (onerror is None).
WalkStep(unit) ==
    /\ stack # <<>>
    /\ LET rest == SubSeq(stack, 1, Len(stack) - 1)
           descend == IF unit THEN Cleared(Dirnames(Top)) ELSE Dirnames(Top)
           subdirs == Listed(descend)
       IN  IF Top \notin dirs
           THEN /\ stack' = rest
                /\ UNCHANGED <<ret, visited>>
           ELSE /\ visited' = visited \cup {Top}
                /\ ret' = IF unit THEN ret \cup {Top} ELSE ret
                /\ stack' = rest \o [i \in 1..Len(subdirs) |->
                                        os_path_join(Top, <<subdirs[i]>>)]

-----------------------------------------------------------------------------
(* find_result_dirs_without_hw_diffs *)

results_dir == <<"results">>
output_dir == <<"compare">>

\* the set comprehension of line 64; it raises when any element does
SourcePaths(paths) ==
    {os_path_join(results_dir, <<_comparison_path_to_source_path(p).value>>) : p \in paths}

Raises(paths) == \E p \in paths : _comparison_path_to_source_path(p).raised

\* return result_paths - source_paths
KeepAll(results, sources) == results
SetDifference(results, sources) == results \ sources

_find_results_paths_step ==
    /\ pc = "find_results"
    /\ WalkStep(IsResultsUnit(Top, Dirnames(Top), Filenames(Top)))
    /\ UNCHANGED <<pc, dirs, files, result_paths, hw_comparison_paths, source_paths,
                   missing, keyVars, dispatchVars>>

_find_results_paths_return ==
    /\ pc = "find_results"
    /\ stack = <<>>
    /\ result_paths' = ret
    /\ ret' = {}
    /\ stack' = <<output_dir>>
    /\ pc' = "find_hw"
    /\ UNCHANGED <<dirs, files, visited, hw_comparison_paths, source_paths, missing,
                   keyVars, dispatchVars>>

_find_hw_comparison_paths_step ==
    /\ pc = "find_hw"
    /\ WalkStep(IsHwComparisonUnit(Top, Dirnames(Top), Filenames(Top)))
    /\ UNCHANGED <<pc, dirs, files, result_paths, hw_comparison_paths, source_paths,
                   missing, keyVars, dispatchVars>>

_find_hw_comparison_paths_return ==
    /\ pc = "find_hw"
    /\ stack = <<>>
    /\ hw_comparison_paths' = ret
    /\ ret' = {}
    /\ pc' = "map"
    /\ UNCHANGED <<dirs, files, stack, visited, result_paths, source_paths, missing,
                   keyVars, dispatchVars>>

map_source_paths ==
    /\ pc = "map"
    /\ IF Raises(hw_comparison_paths)
       THEN pc' = "raised" /\ UNCHANGED source_paths
       ELSE pc' = "subtract" /\ source_paths' = SourcePaths(hw_comparison_paths)
    /\ UNCHANGED <<dirs, files, stack, ret, visited, result_paths, hw_comparison_paths,
                   missing, keyVars, dispatchVars>>

find_result_dirs_return ==
    /\ pc = "subtract"
    /\ missing' = SetDifference(result_paths, source_paths)
    /\ pc' = "returned"
    /\ UNCHANGED <<dirs, files, stack, ret, visited, result_paths, hw_comparison_paths,
                   source_paths, keyVars, dispatchVars>>

-----------------------------------------------------------------------------
(* The trees find_result_dirs_without_hw_diffs is run on *)

\* every "/"-prefix of a path, the path itself included
Prefixes(p) == {SubSeq(p, 1, i - 1) : i \in {j \in 1..Len(p) : p[j] = SEP}} \cup {p}

Closure(paths) == UNION {Prefixes(p) : p \in paths}

ResultsTrunk == <<"results", SEP, "b1", SEP, "p1">>
CompareTrunk == <<"compare", SEP, "b1", SEP, "p1">>

\* s1 of the end-to-end scenario carries the name the hardware filter requires
S1 == <<HW_BASENAME>>
ResultsS1 == ResultsTrunk \o <<SEP>> \o S1
ResultsS2 == ResultsTrunk \o <<SEP, "s2">>
ResultsX == ResultsTrunk \o <<SEP, "X">>
ResultsXY == ResultsX \o <<SEP, "Y">>
CompareXY == CompareTrunk \o <<SEP, "X", COLON, "Y">>
CompareXYS1 == CompareXY \o <<SEP>> \o S1
CompareXYS1S1 == CompareXYS1 \o <<SEP>> \o S1
CompareShort == <<"compare", SEP, HW_BASENAME>>

Sub(d) == d \o <<SEP, "t">>

\* further suite directories beside s1: s2, s3, ...
MaxSuites == 1
SuiteNames == <<"s2", "s3", "s4">>
ResultsSuites == {ResultsTrunk \o <<SEP, SuiteNames[i]>> : i \in 1..MaxSuites}

\* directories a tree may end in; a tree is the closure of a subset
LeafCandidates ==
    {ResultsS1, Sub(ResultsS1), ResultsX, ResultsXY, Sub(ResultsXY),
     CompareXYS1, CompareXYS1S1, Sub(CompareXYS1S1), Sub(CompareShort)}
    \cup {Sub(d) : d \in ResultsSuites}

File(d, name) == d \o <<SEP, name>>

MarkerCandidates ==
    {File(d, RESULTS_JSON) : d \in {ResultsS1, ResultsX, ResultsXY} \cup ResultsSuites}
    \cup {File(d, SUMMARY_JSON) : d \in {CompareXYS1, CompareXYS1S1, CompareShort}}

Parent(f) == SubSeq(f, 1, RFind(f, SEP) - 1)

None == <<>>

KeyIdle ==
    /\ comparison_path = <<>>
    /\ source_path = IndexError

DispatchIdle ==
    /\ results_missing_comparisons = {}
    /\ max_workers = 0
    /\ executor = "none"
    /\ futures = <<>>
    /\ future_result = <<>>
    /\ returncode = <<>>
    /\ worker = <<>>
    /\ tallied = {}
    /\ successful_comparisons = 0
    /\ failed_comparisons = 0
    /\ parallel_runs = <<>>
    /\ serial_runs = <<>>
    /\ retval = None

ScanIdle ==
    /\ dirs = {}
    /\ files = {}
    /\ stack = <<>>
    /\ ret = {}
    /\ visited = {}
    /\ result_paths = {}
    /\ hw_comparison_paths = {}
    /\ source_paths = {}
    /\ missing = {}

Init ==
    /\ pc = "find_results"
    /\ \E L \in SUBSET LeafCandidates :
         /\ dirs = Closure(L)
         /\ files \in SUBSET {f \in MarkerCandidates : Parent(f) \in Closure(L)}
    /\ stack = <<results_dir>>
    /\ ret = {}
    /\ visited = {}
    /\ result_paths = {}
    /\ hw_comparison_paths = {}
    /\ source_paths = {}
    /\ missing = {}
    /\ KeyIdle
    /\ DispatchIdle

Next ==
    \/ _find_results_paths_step
    \/ _find_results_paths_return
    \/ _find_hw_comparison_paths_step
    \/ _find_hw_comparison_paths_return
    \/ map_source_paths
    \/ find_result_dirs_return

Spec == Init /\ [][Next]_vars

-----------------------------------------------------------------------------
(* _comparison_path_to_source_path applied to arbitrary path strings *)

MaxPathLen == 7

KeyAlphabet == {"a", "b", SEP, COLON}

PathStrings == UNION {[1..n -> KeyAlphabet] : n \in 0..MaxPathLen}

KeyInit ==
    /\ pc = "key_call"
    /\ comparison_path \in PathStrings
    /\ source_path = IndexError
    /\ ScanIdle
    /\ DispatchIdle

key_mapper_call ==
    /\ pc = "key_call"
    /\ source_path' = _comparison_path_to_source_path(comparison_path)
    /\ pc' = "key_returned"
    /\ UNCHANGED <<comparison_path, scanVars, dispatchVars>>

KeyNext == key_mapper_call

SpecKey == KeyInit /\ [][KeyNext]_vars

-----------------------------------------------------------------------------
(* generate_missing_hw_diffs                                                *)
(*                                                                         *)
(* The value of its first statement, find_result_dirs_without_hw_diffs,    *)
(* is drawn from the subsets of Results.  Every subprocess.run is taken to *)
(* start the comparator and to end with an exit status.                    *)

MaxResults == 3
MaxWorkers == 2
MaxExitCode == 1

\* the result directories find_result_dirs_without_hw_diffs may return
Results == 1..MaxResults
ExitCodes == 0..MaxExitCode

Put(f, k, v) == [x \in DOMAIN f \cup {k} |-> IF x = k THEN v ELSE f[x]]
Drop(f, k) == [x \in DOMAIN f \ {k} |-> f[x]]

\* `if not results_missing_comparisons: return`
NeverReturnsEarly(results) == FALSE
ReturnsEarly(results) == results = {}

\* perform_comparison: the success flag for an exit status
AlwaysSuccess(code) == TRUE
perform_comparison(code) == code = 0

\* a pool process takes a work item only while it runs none
AnyWorker(w) == TRUE
WorkerFree(w) == w \notin DOMAIN worker

\* as_completed(futures) is exhausted once it has yielded every future
SomeTallied == tallied # {}
AsCompletedExhausted == tallied = results_missing_comparisons

\* the set the serial loop iterates over
FailedOnly == {r \in results_missing_comparisons : ~future_result[r]}
SerialTargets == results_missing_comparisons

DispatchInit ==
    /\ pc = "gen_start"
    /\ results_missing_comparisons \in SUBSET Results
    /\ max_workers \in 1..MaxWorkers
    /\ executor = "none"
    /\ futures = [r \in Results |-> "none"]
    /\ future_result = <<>>
    /\ returncode = <<>>
    /\ worker = <<>>
    /\ tallied = {}
    /\ successful_comparisons = 0
    /\ failed_comparisons = 0
    /\ parallel_runs = [r \in Results |-> 0]
    /\ serial_runs = [r \in Results |-> 0]
    /\ retval = None
    /\ ScanIdle
    /\ KeyIdle

\* lines 81-89: the early return, or the counters and the pool
generate_start ==
    /\ pc = "gen_start"
    /\ IF ReturnsEarly(results_missing_comparisons)
       THEN /\ pc' = "gen_done"
            /\ retval' = None
            /\ UNCHANGED executor
       ELSE /\ pc' = "submit"
            /\ executor' = "running"
            /\ UNCHANGED retval
    /\ successful_comparisons' = 0
    /\ failed_comparisons' = 0
    /\ UNCHANGED <<results_missing_comparisons, max_workers, futures, future_result,
                   returncode, worker, tallied, parallel_runs, serial_runs,
                   scanVars, keyVars>>

\* one executor.submit of the dict comprehension; the set is iterated in an
\* unspecified order
submit(r) ==
    /\ pc = "submit"
    /\ r \in results_missing_comparisons
    /\ futures[r] = "none"
    /\ futures' = [futures EXCEPT ![r] = "pending"]
    /\ pc' = IF \A q \in results_missing_comparisons \ {r} : futures[q] # "none"
             THEN "as_completed" ELSE "submit"
    /\ UNCHANGED <<results_missing_comparisons, max_workers, executor, future_result,
                   returncode, worker, tallied, successful_comparisons,
                   failed_comparisons, parallel_runs, serial_runs, retval,
                   scanVars, keyVars>>

\* a pool process takes a pending work item and starts the comparator
worker_start(w, r) ==
    /\ executor = "running"
    /\ w \in 1..max_workers
    /\ WorkerFree(w)
    /\ futures[r] = "pending"
    /\ worker' = Put(worker, w, r)
    /\ futures' = [futures EXCEPT ![r] = "running"]
    /\ parallel_runs' = [parallel_runs EXCEPT ![r] = @ + 1]
    /\ UNCHANGED <<pc, results_missing_comparisons, max_workers, executor,
                   future_result, returncode, tallied, successful_comparisons,
                   failed_comparisons, serial_runs, retval, scanVars, keyVars>>

\* the comparator exits with some status; perform_comparison returns
worker_finish(w, code) ==
    /\ w \in DOMAIN worker
    /\ futures[worker[w]] = "running"
    /\ futures' = [futures EXCEPT ![worker[w]] = "finished"]
    /\ returncode' = Put(returncode, worker[w], code)
    /\ future_result' = Put(future_result, worker[w], perform_comparison(code))
    /\ worker' = Drop(worker, w)
    /\ UNCHANGED <<pc, results_missing_comparisons, max_workers, executor, tallied,
                   successful_comparisons, failed_comparisons, parallel_runs,
                   serial_runs, retval, scanVars, keyVars>>

\* one iteration of `for future in as_completed(futures)`
tally(r) ==
    /\ pc = "as_completed"
    /\ r \in results_missing_comparisons \ tallied
    /\ futures[r] = "finished"
    /\ tallied' = tallied \cup {r}
    /\ IF future_result[r]
       THEN /\ successful_comparisons' = successful_comparisons + 1
            /\ UNCHANGED failed_comparisons
       ELSE /\ failed_comparisons' = failed_comparisons + 1
            /\ UNCHANGED successful_comparisons
    /\ UNCHANGED <<pc, results_missing_comparisons, max_workers, executor, futures,
                   future_result, returncode, worker, parallel_runs, serial_runs,
                   retval, scanVars, keyVars>>

\* the loop ends and the with block exits: executor.shutdown(wait=True)
\* returns once no work item is pending or running
exit_with ==
    /\ pc = "as_completed"
    /\ AsCompletedExhausted
    /\ \A r \in Results : futures[r] \in {"none", "finished"}
    /\ executor' = "shutdown"
    /\ pc' = "serial"
    /\ UNCHANGED <<results_missing_comparisons, max_workers, futures, future_result,
                   returncode, worker, tallied, successful_comparisons,
                   failed_comparisons, parallel_runs, serial_runs, retval,
                   scanVars, keyVars>>

\* one iteration of the serial loop: subprocess.run blocks until the
\* comparator exits; its exit status is not read
serial_run(r) ==
    /\ pc = "serial"
    /\ r \in SerialTargets
    /\ serial_runs[r] = 0
    /\ serial_runs' = [serial_runs EXCEPT ![r] = @ + 1]
    /\ UNCHANGED <<pc, results_missing_comparisons, max_workers, executor, futures,
                   future_result, returncode, worker, tallied, successful_comparisons,
                   failed_comparisons, parallel_runs, retval, scanVars, keyVars>>

\* the function falls off its end
generate_return ==
    /\ pc = "serial"
    /\ \A r \in SerialTargets : serial_runs[r] # 0
    /\ pc' = "gen_done"
    /\ retval' = None
    /\ UNCHANGED <<results_missing_comparisons, max_workers, executor, futures,
                   future_result, returncode, worker, tallied, successful_comparisons,
                   failed_comparisons, parallel_runs, serial_runs, scanVars, keyVars>>

MainThread ==
    \/ generate_start
    \/ \E r \in Results : submit(r)
    \/ \E r \in Results : tally(r)
    \/ exit_with
    \/ \E r \in Results : serial_run(r)
    \/ generate_return

PoolProcess(w) ==
    \/ \E r \in Results : worker_start(w, r)
    \/ \E code \in ExitCodes : worker_finish(w, code)

DispatchNext ==
    \/ MainThread
    \/ \E w \in 1..MaxWorkers : PoolProcess(w)

SpecBackfill == DispatchInit /\ [][DispatchNext]_vars

\* the main thread keeps running, every pool process keeps running and every
\* comparator run terminates
FairBackfill ==
    /\ SpecBackfill
    /\ WF_vars(MainThread)
    /\ \A w \in 1..MaxWorkers : WF_vars(PoolProcess(w))

-----------------------------------------------------------------------------
(* Properties of the scanners and of find_result_dirs_without_hw_diffs *)

ProperAncestor(u, d) ==
    /\ Len(d) > Len(u)
    /\ SubSeq(d, 1, Len(u)) = u
    /\ d[Len(u) + 1] = SEP

Units == ret \cup result_paths \cup hw_comparison_paths

Pending == {stack[i] : i \in 1..Len(stack)}

\* C1: the set find_result_dirs_without_hw_diffs returns is a subset of the
\* scanned result units and holds no path equal to results_dir joined with
\* the key-mapped path of a scanned comparison unit.
C1_MissingSubsetAndDisjoint ==
    pc = "returned" =>
        /\ missing \subseteq result_paths
        /\ \A c \in hw_comparison_paths :
              os_path_join(results_dir, <<_comparison_path_to_source_path(c).value>>)
                  \notin missing

\* a result unit that has a comparison is dropped while another one is kept
C1_Witness ==
    /\ pc = "returned"
    /\ missing # {}
    /\ \E c \in hw_comparison_paths :
          os_path_join(results_dir, <<_comparison_path_to_source_path(c).value>>)
              \in result_paths

\* the end-to-end scenario: result units results/b1/p1/s1 and results/b1/p1/s2,
\* one comparison unit compare/b1/p1/X:Y/s1, s1 being the name the hardware
\* filter requires
Scenario ==
    /\ dirs = Closure({Sub(ResultsS1), Sub(ResultsS2), CompareXYS1S1})
    /\ files = {File(ResultsS1, RESULTS_JSON), File(ResultsS2, RESULTS_JSON),
                File(CompareXYS1, SUMMARY_JSON)}

\* C2 as stated: in the end-to-end scenario find_result_dirs_without_hw_diffs
\* returns exactly {results/b1/p1/s2}.
C2_ScenarioReturnsOnlyS2 ==
    (Scenario /\ pc = "returned") => missing = {ResultsS2}

\* C2 amended: in the end-to-end scenario the comparison unit maps to
\* results/b1/p1/X/Y, which is no result unit, and both result units are
\* returned.
C2_ScenarioReturnsBoth ==
    (Scenario /\ pc = "returned") =>
        /\ hw_comparison_paths = {CompareXYS1}
        /\ source_paths = {ResultsXY}
        /\ missing = {ResultsS1, ResultsS2}

C2_Witness == Scenario /\ pc = "returned"

\* C9: a scanner never descends into a directory it has recorded: no recorded
\* unit is a proper ancestor of a visited, pending or recorded directory, and
\* a directory with zero subdirectories is never recorded.
C9_NoDescentBelowUnit ==
    \A u \in Units :
        /\ Dirnames(u) # {}
        /\ \A d \in visited \cup Pending \cup Units : ~ProperAncestor(u, d)

\* both scans are over; in each tree a recorded unit holds a directory that
\* qualifies too, and a directory with the marker but no subdirectory exists
C9_Witness ==
    /\ pc = "map"
    /\ ResultsX \in result_paths
    /\ IsResultsUnit(ResultsXY, Dirnames(ResultsXY), Filenames(ResultsXY))
    /\ CompareXYS1 \in hw_comparison_paths
    /\ IsHwComparisonUnit(CompareXYS1S1, Dirnames(CompareXYS1S1), Filenames(CompareXYS1S1))
    /\ ResultsS1 \in dirs
    /\ Dirnames(ResultsS1) = {}
    /\ <<RESULTS_JSON>> \in Filenames(ResultsS1)

Components(path) == str_split(path, SEP)

HasGraphicsPair(path) ==
    /\ Len(Components(path)) >= 4
    /\ Find(Components(path)[Len(Components(path)) - 1], COLON) # 0

\* the component at offset -2 is "A:B", A and B non-empty and free of ":"
IsPairAB(path) ==
    /\ HasGraphicsPair(path)
    /\ LET ab == str_split(Components(path)[Len(Components(path)) - 1], COLON)
       IN  Len(ab) = 2 /\ ab[1] # <<>> /\ ab[2] # <<>>

\* C3 as stated: the key mapper fails whenever the path has fewer than four
\* components or its component at offset -2 holds no ":"; for "A:B" it returns
\* a path whose last two segments are A then B.
C3_FailsOnMalformedPath ==
    pc = "key_returned" =>
        /\ ~HasGraphicsPair(comparison_path) => source_path.raised
        /\ IsPairAB(comparison_path) =>
              LET ab == str_split(Components(comparison_path)
                                      [Len(Components(comparison_path)) - 1], COLON)
                  out == Components(source_path.value)
              IN  /\ ~source_path.raised
                  /\ Len(out) >= 2
                  /\ out[Len(out) - 1] = ab[1]
                  /\ out[Len(out)] = ab[2]

-----------------------------------------------------------------------------
(* Properties of generate_missing_hw_diffs *)

N == Cardinality(results_missing_comparisons)

InProgress == {r \in Results : futures[r] = "running"}

ParallelPassOver == pc \in {"serial", "gen_done"} /\ results_missing_comparisons # {}

NonZeroExits == {r \in DOMAIN returncode : returncode[r] # 0}

\* C4: every parallel job eventually completes whatever the exit statuses
\* are, and when the parallel pass ends the two counters sum to N, the
\* failure counter being the number of non-zero exits.
C4_AllJobsCompleteAndCounted ==
    /\ <>(\A r \in results_missing_comparisons : futures[r] = "finished")
    /\ [](ParallelPassOver =>
            /\ DOMAIN returncode = results_missing_comparisons
            /\ successful_comparisons + failed_comparisons = N
            /\ failed_comparisons = Cardinality(NonZeroExits))

\* more jobs than workers, and both outcomes have been tallied
C4_Witness ==
    /\ ParallelPassOver
    /\ max_workers < N
    /\ successful_comparisons > 0
    /\ failed_comparisons > 0

\* C5 as stated: generate_missing_hw_diffs returns the pair of counters.
C5_ReturnsTally ==
    pc = "gen_done" => retval = <<successful_comparisons, failed_comparisons>>

\* C6: no comparator run of the serial pass starts before every parallel job
\* has finished and been tallied and the pool has been shut down.
C6_SerialAfterBarrier ==
    (\E r \in Results : serial_runs[r] > 0) =>
        /\ \A r \in results_missing_comparisons : futures[r] = "finished"
        /\ tallied = results_missing_comparisons
        /\ executor = "shutdown"
        /\ worker = <<>>

C6_Witness ==
    /\ \E r \in Results : serial_runs[r] > 0
    /\ N > max_workers

\* C7: the serial pass runs the comparator exactly once for every entry of
\* the missing set whatever its parallel outcome, so on return each entry has
\* had two runs and every other result none.
C7_SerialRunsEveryEntryOnce ==
    /\ \A r \in Results : serial_runs[r] <= 1
    /\ (pc = "gen_done" /\ results_missing_comparisons # {}) =>
          \A r \in Results :
              IF r \in results_missing_comparisons
              THEN serial_runs[r] = 1 /\ parallel_runs[r] + serial_runs[r] = 2
              ELSE serial_runs[r] = 0 /\ parallel_runs[r] + serial_runs[r] = 0

\* returned with one entry that succeeded in parallel, one that failed and a
\* result outside the missing set
C7_Witness ==
    /\ pc = "gen_done"
    /\ results_missing_comparisons # Results
    /\ \E r, q \in results_missing_comparisons : future_result[r] /\ ~future_result[q]

\* C8: with an empty missing set the call returns at once: no pool is
\* created and no comparator is run in either pass.
C8_EmptyIsNoOp ==
    results_missing_comparisons = {} =>
        /\ pc \in {"gen_start", "gen_done"}
        /\ executor = "none"
        /\ worker = <<>>
        /\ \A r \in Results :
              futures[r] = "none" /\ parallel_runs[r] = 0 /\ serial_runs[r] = 0

C8_Witness == results_missing_comparisons = {} /\ pc = "gen_done"

\* C10: at most max_workers comparator runs are in progress at any moment of
\* the parallel pass, and every job is run by exactly one pool process.
C10_BoundedParallelism ==
    /\ Cardinality(InProgress) <= max_workers
    /\ \A r \in Results :
          /\ parallel_runs[r] <= 1
          /\ Cardinality({w \in DOMAIN worker : worker[w] = r})
                 = (IF r \in InProgress THEN 1 ELSE 0)
    /\ ParallelPassOver => \A r \in results_missing_comparisons : parallel_runs[r] = 1

\* every pool process is busy while a job still waits
C10_Witness ==
    /\ Cardinality(InProgress) = max_workers
    /\ max_workers > 1
    /\ \E r \in Results : futures[r] = "pending"

=============================================================================
